---- MODULE Spec2Model ----
(***************************************************************************)
(* Model of the DCF valuation engine of src/11_amazon2024_dcf.py:          *)
(* the four path builders, run_dcf, and the sensitivity loop of main.      *)
(*                                                                         *)
(* Numbers.  The program computes in IEEE-754 binary64 (Python float and   *)
(* numpy.float64).  The model computes in exact rational arithmetic        *)
(* extended with the three IEEE special values: a number is a pair         *)
(* <<n, d>>, d > 0 and gcd(n, d) = 1 for a finite value n/d, and           *)
(* <<1, 0>> = +inf, <<-1, 0>> = -inf, <<0, 0>> = nan.  Rounding error and  *)
(* the sign of zero are abstracted away; division by zero is not: a        *)
(* numpy division by zero yields inf or nan (a warning, no exception),     *)
(* a Python float division by zero raises ZeroDivisionError.               *)
(***************************************************************************)
EXTENDS Integers, Sequences, FiniteSets, TLC

VARIABLES
    pc,           \* position of the caller / of main
    inputs,       \* the DCFInputs record handed to the engine
    horizon,      \* horizon_years of the call
    result,       \* what the last call returned or raised
    widgets,      \* main: the grid widgets g_min, g_max, n_g, m_min, m_max, n_m
    g_list,       \* main: growth axis of the sensitivity grid
    m_list,       \* main: margin axis of the sensitivity grid
    sens_matrix,  \* main: the sensitivity matrix
    i,            \* main: outer loop index
    j,            \* main: inner loop index
    tasks,        \* the loop bodies handed to workers: cell -> progress
    calls         \* what a caller of several run_dcf calls keeps of each one

vars == <<pc, inputs, horizon, result, widgets, g_list, m_list, sens_matrix, i, j, tasks, calls>>

gridVars == <<widgets, g_list, m_list, sens_matrix, i, j, tasks>>

-----------------------------------------------------------------------------
(* Extended rational arithmetic *)

Abs(x) == IF x < 0 THEN -x ELSE x

Sign(x) == IF x < 0 THEN -1 ELSE IF x > 0 THEN 1 ELSE 0

RECURSIVE Gcd(_, _)
Gcd(a, b) == IF b = 0 THEN a ELSE Gcd(b, a % b)

\* the finite value n/d (d # 0) in lowest terms with a positive denominator
Rat(n, d) ==
    LET g == Gcd(Abs(n), Abs(d))
    IN  IF d < 0 THEN <<(-n) \div g, (-d) \div g>> ELSE <<n \div g, d \div g>>

Num(n) == <<n, 1>>

Zero == <<0, 1>>

One == <<1, 1>>

PosInf == <<1, 0>>

NegInf == <<-1, 0>>

NaN == <<0, 0>>

IsNaN(x) == x = NaN

IsInf(x) == x[2] = 0 /\ x[1] # 0

IsFinite(x) == x[2] # 0

IsZero(x) == x[2] # 0 /\ x[1] = 0

SignOf(x) == Sign(x[1])

InfOfSign(s) == IF s < 0 THEN NegInf ELSE PosInf

Neg(x) == <<-x[1], x[2]>>

\* x + y
Add(x, y) ==
    IF IsNaN(x) \/ IsNaN(y) THEN NaN
    ELSE IF IsInf(x) THEN (IF IsInf(y) /\ y # x THEN NaN ELSE x)
    ELSE IF IsInf(y) THEN y
    ELSE LET g == Gcd(x[2], y[2])
             l == (x[2] \div g) * y[2]
         IN  Rat(x[1] * (l \div x[2]) + y[1] * (l \div y[2]), l)

\* x - y
Sub(x, y) == Add(x, Neg(y))

\* x * y
Mul(x, y) ==
    IF IsNaN(x) \/ IsNaN(y) THEN NaN
    ELSE IF IsInf(x) \/ IsInf(y)
         THEN (IF IsZero(x) \/ IsZero(y) THEN NaN
               ELSE InfOfSign(SignOf(x) * SignOf(y)))
    ELSE LET g1 == Gcd(Abs(x[1]), y[2])
             g2 == Gcd(Abs(y[1]), x[2])
         IN  Rat((x[1] \div g1) * (y[1] \div g2), (x[2] \div g2) * (y[2] \div g1))

\* x / y as numpy.float64 divides: a zero divisor gives inf or nan
Div(x, y) ==
    IF IsNaN(x) \/ IsNaN(y) THEN NaN
    ELSE IF IsInf(y) THEN (IF IsInf(x) THEN NaN ELSE Zero)
    ELSE IF IsZero(y) THEN (IF IsZero(x) THEN NaN ELSE InfOfSign(SignOf(x)))
    ELSE IF IsInf(x) THEN InfOfSign(SignOf(x) * SignOf(y))
    ELSE Mul(x, Rat(y[2], y[1]))

\* x < y; every comparison with nan is false
Lt(x, y) ==
    /\ ~IsNaN(x)
    /\ ~IsNaN(y)
    /\ x # y
    /\ IF IsInf(x) THEN x = NegInf
       ELSE IF IsInf(y) THEN y = PosInf
       ELSE SignOf(Sub(x, y)) < 0

Gt(x, y) == Lt(y, x)

Le(x, y) == ~IsNaN(x) /\ ~IsNaN(y) /\ (x = y \/ Lt(x, y))

-----------------------------------------------------------------------------
(* DCFInputs and the path builders *)

\* the dataclass constructor, one keyword argument per field
DCFInputs(base_revenue, base_ebit_margin, effective_tax_rate, marginal_tax_rate, g_year1, g_years2_5, target_ebit_margin, margin_convergence_year, sales_to_capital_yrs1_5, sales_to_capital_yrs6_10, initial_wacc, terminal_wacc, terminal_growth, terminal_roic, debt, cash, non_operating_assets, options_value, shares_outstanding, base_invested_capital, prob_failure, recovery_rate) ==
    [base_revenue |-> base_revenue, base_ebit_margin |-> base_ebit_margin,
     effective_tax_rate |-> effective_tax_rate, marginal_tax_rate |-> marginal_tax_rate,
     g_year1 |-> g_year1, g_years2_5 |-> g_years2_5,
     target_ebit_margin |-> target_ebit_margin,
     margin_convergence_year |-> margin_convergence_year,
     sales_to_capital_yrs1_5 |-> sales_to_capital_yrs1_5,
     sales_to_capital_yrs6_10 |-> sales_to_capital_yrs6_10,
     initial_wacc |-> initial_wacc, terminal_wacc |-> terminal_wacc,
     terminal_growth |-> terminal_growth, terminal_roic |-> terminal_roic,
     debt |-> debt, cash |-> cash, non_operating_assets |-> non_operating_assets,
     options_value |-> options_value, shares_outstanding |-> shares_outstanding,
     base_invested_capital |-> base_invested_capital,
     prob_failure |-> prob_failure, recovery_rate |-> recovery_rate]

Min(a, b) == IF a <= b THEN a ELSE b

\* the years-1-5 loop one short: range(1, min(5, H)) leaves its last year 0
build_growth_path_short_loop(inp, H) ==
    LET step == Div(Sub(inp.g_years2_5, inp.terminal_growth), Num(10 - 5))
    IN  [t \in 0..(H + 1) |->
            IF t = H + 1 THEN inp.terminal_growth
            ELSE IF t >= 6 /\ H >= 6
                 THEN Sub(inp.g_years2_5, Mul(step, Num(t - 5)))
            ELSE IF t >= 1 /\ t < Min(5, H)
                 THEN (IF t = 1 THEN inp.g_year1 ELSE inp.g_years2_5)
            ELSE Zero]

\* the ramp counted from year 6 instead of year 5: year 10 stops one step
\* short of terminal_growth
build_growth_path_ramp_from_six(inp, H) ==
    LET step == Div(Sub(inp.g_years2_5, inp.terminal_growth), Num(10 - 5))
    IN  [t \in 0..(H + 1) |->
            IF t = H + 1 THEN inp.terminal_growth
            ELSE IF t >= 6 /\ H >= 6
                 THEN Sub(inp.g_years2_5, Mul(step, Num(t - 6)))
            ELSE IF t >= 1 /\ t <= Min(5, H)
                 THEN (IF t = 1 THEN inp.g_year1 ELSE inp.g_years2_5)
            ELSE Zero]

\* np.zeros(horizon_years + 2) followed by the assignments of the builder;
\* a later assignment to the same index wins
build_growth_path(inp, H) ==
    LET step == Div(Sub(inp.g_years2_5, inp.terminal_growth), Num(10 - 5))
    IN  [t \in 0..(H + 1) |->
            IF t = H + 1 THEN inp.terminal_growth
            ELSE IF t >= 6 /\ H >= 6
                 THEN Sub(inp.g_years2_5, Mul(step, Num(t - 5)))
            ELSE IF t >= 1 /\ t <= Min(5, H)
                 THEN (IF t = 1 THEN inp.g_year1 ELSE inp.g_years2_5)
            ELSE Zero]

\* the ramp measured from year 1: (t - 1) / N never reaches the target at N
build_margin_path_late_ramp(inp, H) ==
    LET base   == inp.base_ebit_margin
        target == inp.target_ebit_margin
        N      == inp.margin_convergence_year
    IN  [t \in 0..(H + 1) |->
            IF t = H + 1 THEN target
            ELSE IF t = 0 THEN base
            ELSE IF t = 1 THEN base
            ELSE IF t <= N THEN Add(base, Mul(Sub(target, base), Rat(t - 1, N)))
            ELSE target]

\* compound convergence: every year closes 1/N of the gap that remains
build_margin_path_compound_gap(inp, H) ==
    LET base   == inp.base_ebit_margin
        target == inp.target_ebit_margin
        N      == inp.margin_convergence_year
        m[t \in 0..(H + 1)] ==
            IF t = H + 1 THEN target
            ELSE IF t = 0 THEN base
            ELSE IF t = 1 THEN base
            ELSE IF t <= N THEN Add(m[t - 1], Mul(Sub(target, m[t - 1]), Rat(1, N)))
            ELSE target
    IN  m

build_margin_path_excel_style(inp, H) ==
    LET base   == inp.base_ebit_margin
        target == inp.target_ebit_margin
        N      == inp.margin_convergence_year
    IN  [t \in 0..(H + 1) |->
            IF t = H + 1 THEN target
            ELSE IF t = 0 THEN base
            ELSE IF t = 1 THEN base
            ELSE IF t <= N THEN Add(base, Mul(Sub(target, base), Rat(t, N)))
            ELSE target]

\* range(0, 6) writes tr[0..5] whatever the horizon: an array of
\* horizon_years + 2 < 6 slots raises IndexError
\* the effective rate held one year longer
build_tax_path_effective_to_six(inp, H) ==
    LET eff == inp.effective_tax_rate
        mar == inp.marginal_tax_rate
    IN  IF H + 2 < 7 THEN [status |-> "IndexError"]
        ELSE [status |-> "ok",
              path |-> [t \in 0..(H + 1) |->
                          IF t = H + 1 THEN mar
                          ELSE IF t >= 7
                               THEN Add(eff, Mul(Sub(mar, eff), Rat(t - 5, 5)))
                          ELSE eff]]

build_tax_path(inp, H) ==
    LET eff == inp.effective_tax_rate
        mar == inp.marginal_tax_rate
    IN  IF H + 2 < 6 THEN [status |-> "IndexError"]
        ELSE [status |-> "ok",
              path |-> [t \in 0..(H + 1) |->
                          IF t = H + 1 THEN mar
                          ELSE IF t >= 6
                               THEN Add(eff, Mul(Sub(mar, eff), Rat(t - 5, 5)))
                          ELSE eff]]

\* the initial WACC written from index 0
build_wacc_path_from_year_zero(inp, H) ==
    LET init == inp.initial_wacc
        term == inp.terminal_wacc
        step == Div(Sub(init, term), Num(5))
    IN  IF H + 2 < 6 THEN [status |-> "IndexError"]
        ELSE [status |-> "ok",
              path |-> [t \in 0..(H + 1) |->
                          IF t = H + 1 THEN term
                          ELSE IF t >= 6 THEN Sub(init, Mul(step, Num(t - 5)))
                          ELSE init]]

\* range(1, 5 + 1) writes w[1..5] whatever the horizon
build_wacc_path(inp, H) ==
    LET init == inp.initial_wacc
        term == inp.terminal_wacc
        step == Div(Sub(init, term), Num(5))
    IN  IF H + 2 < 6 THEN [status |-> "IndexError"]
        ELSE [status |-> "ok",
              path |-> [t \in 0..(H + 1) |->
                          IF t = H + 1 THEN term
                          ELSE IF t >= 6 THEN Sub(init, Mul(step, Num(t - 5)))
                          ELSE IF t >= 1 THEN init
                          ELSE Zero]]

-----------------------------------------------------------------------------
(* run_dcf, section by section *)

\* 2) revenue path
revenue_path(inp, g, H) ==
    LET rev[t \in 0..(H + 1)] ==
            IF t = 0 THEN inp.base_revenue
            ELSE Mul(rev[t - 1], Add(One, g[t]))
    IN  rev

\* 3) EBIT and after-tax EBIT, element-wise over the whole arrays
ebit_path(rev, m, H) == [t \in 0..(H + 1) |-> Mul(rev[t], m[t])]

\* after-tax EBIT projected from year 1 only
ebit_1_t_path_from_year_one(ebit, tr, H) == [t \in 0..(H + 1) |-> IF t = 0 THEN Zero ELSE Mul(ebit[t], Sub(One, tr[t]))]

ebit_1_t_path(ebit, tr, H) == [t \in 0..(H + 1) |-> Mul(ebit[t], Sub(One, tr[t]))]

\* 4) sales-to-capital path
stc_path(inp, H) ==
    [t \in 0..(H + 1) |->
        IF t = H + 1 THEN inp.sales_to_capital_yrs6_10
        ELSE IF t >= 6 THEN inp.sales_to_capital_yrs6_10
        ELSE IF t >= 1 /\ t <= Min(5, H) THEN inp.sales_to_capital_yrs1_5
        ELSE Zero]

\* the terminal reinvestment rate inverted, ROIC / g
reinvestment_path_inverted_rate(inp, rev, stc, ebit_1_t, H) ==
    [t \in 0..(H + 1) |->
        IF t = H + 1
        THEN Mul(Div(inp.terminal_roic, inp.terminal_growth), ebit_1_t[H + 1])
        ELSE IF t >= 1 THEN Div(Sub(rev[t + 1], rev[t]), stc[t])
        ELSE Zero]

\* 5) reinvestment; the terminal slot divides two Python floats, which the
\* caller guards (ZeroDivisionError when terminal_roic is 0)
reinvestment_path(inp, rev, stc, ebit_1_t, H) ==
    [t \in 0..(H + 1) |->
        IF t = H + 1
        THEN Mul(Div(inp.terminal_growth, inp.terminal_roic), ebit_1_t[H + 1])
        ELSE IF t >= 1 THEN Div(Sub(rev[t + 1], rev[t]), stc[t])
        ELSE Zero]

\* the free cash flow with its sign flipped
fcff_path_reinvestment_minus_ebit(ebit_1_t, reinv, H) ==
    [t \in 0..(H + 1) |->
        IF t >= 1 /\ t <= H THEN Sub(reinv[t], ebit_1_t[t]) ELSE Zero]

\* the terminal cash flow stored in slot H+1 as well
fcff_path_with_terminal(ebit_1_t, reinv, H) ==
    [t \in 0..(H + 1) |->
        IF t >= 1 THEN Sub(ebit_1_t[t], reinv[t]) ELSE Zero]

\* 6) FCFF of the explicit years
fcff_path(ebit_1_t, reinv, H) ==
    [t \in 0..(H + 1) |->
        IF t >= 1 /\ t <= H THEN Sub(ebit_1_t[t], reinv[t]) ELSE Zero]

\* the factor compounded instead of discounted
cum_df_path_compounded(wac, H) ==
    LET cum_df[t \in 0..(H + 1)] ==
            IF t = 0 THEN One
            ELSE IF t <= H THEN Mul(cum_df[t - 1], Add(One, wac[t]))
            ELSE Zero
    IN  cum_df

\* 7) cumulative discount factors and present values
cum_df_path(wac, H) ==
    LET cum_df[t \in 0..(H + 1)] ==
            IF t = 0 THEN One
            ELSE IF t <= H THEN Div(cum_df[t - 1], Add(One, wac[t]))
            ELSE Zero
    IN  cum_df

pv_fcff_path(fcff, cum_df, H) ==
    [t \in 0..(H + 1) |->
        IF t >= 1 /\ t <= H THEN Mul(fcff[t], cum_df[t]) ELSE Zero]

\* the spread computed with the wrong sign: wacc + growth
terminal_value_sum_spread(inp, fcff_terminal) ==
    Div(fcff_terminal, Add(inp.terminal_wacc, inp.terminal_growth))

\* 8) terminal value
terminal_value(inp, fcff_terminal) ==
    Div(fcff_terminal, Sub(inp.terminal_wacc, inp.terminal_growth))

\* 9) pv_fcff[a : b + 1].sum()
RECURSIVE SumRange(_, _, _)
SumRange(f, a, b) == IF a > b THEN Zero ELSE Add(SumRange(f, a, b - 1), f[b])

\* the distress weights applied unconditionally and swapped
value_operating_assets_swapped(inp, sum_pv) ==
    LET proceeds_if_fail == Mul(sum_pv, inp.recovery_rate)
    IN  Add(Mul(sum_pv, inp.prob_failure),
            Mul(proceeds_if_fail, Sub(One, inp.prob_failure)))

\* 10) distress adjustment
value_operating_assets(inp, sum_pv) ==
    IF Gt(inp.prob_failure, Zero)
    THEN LET proceeds_if_fail == Mul(sum_pv, inp.recovery_rate)
         IN  Add(Mul(sum_pv, Sub(One, inp.prob_failure)),
                 Mul(proceeds_if_fail, inp.prob_failure))
    ELSE sum_pv

\* cash netted like debt: subtracted instead of added
value_equity_cash_subtracted(inp, voa) ==
    Add(Sub(Sub(voa, inp.debt), inp.cash), inp.non_operating_assets)

\* 11) equity bridge
value_equity(inp, voa) ==
    Add(Add(Sub(voa, inp.debt), inp.cash), inp.non_operating_assets)

\* 12) invested capital diagnostic
\* each year's capital is the base plus that year's reinvestment only
invested_path_not_cumulative(inp, reinv, H) ==
    [t \in 0..H |->
        IF t = 0 THEN inp.base_invested_capital
        ELSE Add(inp.base_invested_capital, reinv[t])]

invested_path(inp, reinv, H) ==
    LET invested[t \in 0..H] ==
            IF t = 0 THEN inp.base_invested_capital
            ELSE Add(invested[t - 1], reinv[t])
    IN  invested

run_dcf(inp, H) ==
    LET g       == build_growth_path(inp, H)
        m       == build_margin_path_excel_style(inp, H)
        trr     == build_tax_path(inp, H)
        wacr    == build_wacc_path(inp, H)
        tr      == trr.path
        wac     == wacr.path
        rev     == revenue_path(inp, g, H)
        ebit    == ebit_path(rev, m, H)
        ebit_1_t == ebit_1_t_path(ebit, tr, H)
        stc     == stc_path(inp, H)
        reinv   == reinvestment_path(inp, rev, stc, ebit_1_t, H)
        fcff    == fcff_path(ebit_1_t, reinv, H)
        fcff_terminal == Sub(ebit_1_t[H + 1], reinv[H + 1])
        cum_df  == cum_df_path(wac, H)
        pv_fcff == pv_fcff_path(fcff, cum_df, H)
        tv      == terminal_value(inp, fcff_terminal)
        df_terminal == cum_df[H]
        pv_terminal == Mul(tv, df_terminal)
        pv_cf_1_10  == SumRange(pv_fcff, 1, H)
        sum_pv  == Add(pv_cf_1_10, pv_terminal)
        voa     == value_operating_assets(inp, sum_pv)
        veq     == value_equity(inp, voa)
        value_equity_common == Sub(veq, inp.options_value)
        value_per_share == Div(value_equity_common, inp.shares_outstanding)
        invested == invested_path(inp, reinv, H)
        roic    == [t \in 0..H |-> Div(ebit_1_t[t], invested[t])]
    IN  IF trr.status # "ok" THEN [status |-> trr.status]
        ELSE IF wacr.status # "ok" THEN [status |-> wacr.status]
        ELSE IF IsZero(inp.terminal_roic) THEN [status |-> "ZeroDivisionError"]
        ELSE [status |-> "ok",
              df |-> [year |-> [t \in 0..(H + 1) |-> t],
                      growth |-> g,
                      revenue |-> rev,
                      ebit_margin |-> m,
                      ebit |-> ebit,
                      tax_rate |-> tr,
                      ebit_1_t |-> ebit_1_t,
                      sales_to_capital |-> stc,
                      reinvestment |-> reinv,
                      fcff |-> fcff,
                      wacc |-> wac,
                      cum_discount_factor |-> cum_df,
                      pv_fcff |-> pv_fcff],
              diag |-> [year |-> [t \in 0..H |-> t],
                        invested_capital |-> invested,
                        roic |-> roic],
              summary |-> [pv_cf_1_10 |-> pv_cf_1_10,
                           terminal_value |-> tv,
                           pv_terminal_value |-> pv_terminal,
                           sum_pv |-> sum_pv,
                           value_operating_assets |-> voa,
                           value_equity |-> veq,
                           value_equity_common |-> value_equity_common,
                           value_per_share |-> value_per_share]]

-----------------------------------------------------------------------------
(* The engine called directly: one call of run_dcf(inputs, horizon_years) *)

MaxHorizon == 6

BaseCase ==
    DCFInputs(Num(100), Rat(1, 10), Zero, Rat(1, 2),
              One, Rat(1, 2), Rat(1, 5), 3,
              One, Num(2), One, One,
              Zero, Rat(1, 5), Num(40), Num(10),
              Num(5), Num(3), Num(2),
              Num(100), Zero, Rat(1, 2))

\* assumptions on both sides of every validity boundary of the valuation
ValuationCases ==
    {[BaseCase EXCEPT !.terminal_wacc = w, !.terminal_growth = g,
                      !.shares_outstanding = s, !.prob_failure = p,
                      !.recovery_rate = r] :
        w \in {One, Rat(1, 2)}, g \in {Zero, Rat(1, 2), One},
        s \in {Num(2), Zero, Num(-1)},
        p \in {Zero, Rat(1, 2), Rat(-1, 2), Num(2)},
        r \in {Rat(1, 2), Num(2)}}

ProjectionCases ==
    {[BaseCase EXCEPT !.sales_to_capital_yrs1_5 = a,
                      !.sales_to_capital_yrs6_10 = b,
                      !.initial_wacc = w, !.terminal_roic = q,
                      !.recovery_rate = r] :
        a \in {One, Zero, Num(-1)}, b \in {Num(2), Zero},
        w \in {One, Zero, Rat(-1, 2)}, q \in {Rat(1, 5), Zero},
        r \in {Rat(1, 2), Num(-1)}}

\* one sales-to-capital ratio for both segments, terminal growth below, at
\* and above the terminal ROIC, and a failure that is certain and total
TerminalCases ==
    {[BaseCase EXCEPT !.sales_to_capital_yrs1_5 = s,
                      !.sales_to_capital_yrs6_10 = s,
                      !.terminal_growth = c[1], !.terminal_roic = c[2],
                      !.prob_failure = f[1], !.recovery_rate = f[2]] :
        s \in {One, Num(2)},
        c \in {<<Zero, Rat(1, 5)>>, <<Rat(1, 5), Rat(1, 2)>>,
               <<Rat(1, 2), Rat(1, 2)>>, <<Rat(1, 2), Rat(1, 5)>>},
        f \in {<<Zero, Rat(1, 2)>>, <<Rat(1, 2), Rat(1, 2)>>, <<One, Zero>>}}

EngineInputs == ValuationCases \cup ProjectionCases \cup TerminalCases

Idle ==
    /\ widgets = <<>>
    /\ g_list = <<>>
    /\ m_list = <<>>
    /\ sens_matrix = <<>>
    /\ i = 0
    /\ j = 0
    /\ tasks = <<>>

Init ==
    /\ pc = "call"
    /\ inputs \in EngineInputs
    /\ horizon \in 1..MaxHorizon
    /\ result = [status |-> "none"]
    /\ Idle
    /\ calls = <<>>

\* the call returns (df, diag, summary) or an exception propagates
CallRunDcf ==
    /\ pc = "call"
    /\ result' = run_dcf(inputs, horizon)
    /\ pc' = IF result'.status = "ok" THEN "returned" ELSE "raised"
    /\ UNCHANGED <<calls, inputs, horizon, gridVars>>

Next == CallRunDcf

Spec == Init /\ [][Next]_vars

Returned == pc = "returned"

-----------------------------------------------------------------------------
(* A caller that calls run_dcf several times, with any arguments, and keeps  *)
(* the arguments and the outcome of every call                               *)

MaxCalls == 3

CallCases ==
    {BaseCase,
     [BaseCase EXCEPT !.g_year1 = Zero, !.base_revenue = Num(50)],
     [BaseCase EXCEPT !.terminal_roic = Zero]}

CallHorizons == {4, 6}

InitCalls ==
    /\ pc = "call"
    /\ inputs \in CallCases
    /\ horizon \in CallHorizons
    /\ result = [status |-> "none"]
    /\ Idle
    /\ calls = <<>>

\* the call seeded with the revenue of the previous call, as if the arrays
\* were module-level and reused
CallAndKeep_reused_arrays ==
    /\ pc = "call"
    /\ LET seed == IF calls = <<>> THEN inputs.base_revenue
                   ELSE calls[Len(calls)].inputs.base_revenue
       IN  result' = run_dcf([inputs EXCEPT !.base_revenue = seed], horizon)
    /\ calls' = Append(calls, [inputs |-> inputs, horizon |-> horizon,
                               result |-> result'])
    /\ pc' = "kept"
    /\ UNCHANGED <<inputs, horizon, gridVars>>

\* df, diag, summary = run_dcf(inputs, horizon_years), or the exception
CallAndKeep ==
    /\ pc = "call"
    /\ result' = run_dcf(inputs, horizon)
    /\ calls' = Append(calls, [inputs |-> inputs, horizon |-> horizon,
                               result |-> result'])
    /\ pc' = "kept"
    /\ UNCHANGED <<inputs, horizon, gridVars>>

\* the caller picks the arguments of its next call
NextArguments ==
    /\ pc = "kept"
    /\ Len(calls) < MaxCalls
    /\ inputs' \in CallCases
    /\ horizon' \in CallHorizons
    /\ pc' = "call"
    /\ UNCHANGED <<result, calls, gridVars>>

NextCalls == CallAndKeep \/ NextArguments

SpecCalls == InitCalls /\ [][NextCalls]_vars

-----------------------------------------------------------------------------
(* The path builders called on their own, over longer horizons *)

MaxPathHorizon == 11

MaxConvergenceYear == 4

GrowthRates == {Zero, Rat(1, 2), One, Rat(-1, 2)}

GrowthCases ==
    {[BaseCase EXCEPT !.g_year1 = a, !.g_years2_5 = b, !.terminal_growth = c] :
        a \in GrowthRates, b \in GrowthRates, c \in GrowthRates}

MarginCases ==
    {[BaseCase EXCEPT !.base_ebit_margin = a, !.target_ebit_margin = b,
                      !.margin_convergence_year = n] :
        a \in {Rat(1, 10), Rat(1, 5)}, b \in {Rat(1, 5), Rat(1, 20)},
        n \in 1..MaxConvergenceYear}

TaxCases ==
    {[BaseCase EXCEPT !.effective_tax_rate = c[1], !.marginal_tax_rate = c[2]] :
        c \in {<<Zero, Rat(1, 2)>>, <<Rat(1, 2), Zero>>, <<Rat(1, 5), Rat(3, 10)>>,
               <<Rat(1, 4), Rat(1, 4)>>}}

WaccCases ==
    {[BaseCase EXCEPT !.initial_wacc = c[1], !.terminal_wacc = c[2]] :
        c \in {<<One, Zero>>, <<Zero, One>>, <<One, Rat(1, 2)>>,
               <<Rat(1, 2), Rat(1, 2)>>}}

PathInputs == GrowthCases \cup MarginCases \cup TaxCases \cup WaccCases

InitPaths ==
    /\ pc = "build"
    /\ inputs \in PathInputs
    /\ horizon \in 1..MaxPathHorizon
    /\ result = [status |-> "none"]
    /\ Idle
    /\ calls = <<>>

\* build_growth_path and the revenue path run_dcf derives from it
BuildGrowthPath ==
    /\ pc = "build"
    /\ LET g == build_growth_path(inputs, horizon)
       IN  result' = [status |-> "growth", growth |-> g,
                      revenue |-> revenue_path(inputs, g, horizon)]
    /\ pc' = "growth"
    /\ UNCHANGED <<calls, inputs, horizon, gridVars>>

BuildMarginPath ==
    /\ pc = "build"
    /\ result' = [status |-> "margin",
                  ebit_margin |-> build_margin_path_excel_style(inputs, horizon)]
    /\ pc' = "margin"
    /\ UNCHANGED <<calls, inputs, horizon, gridVars>>

\* build_tax_path, or the IndexError of a horizon below 4
BuildTaxPath ==
    /\ pc = "build"
    /\ LET trr == build_tax_path(inputs, horizon)
       IN  IF trr.status = "ok"
           THEN /\ result' = [status |-> "tax", tax_rate |-> trr.path]
                /\ pc' = "tax"
           ELSE /\ result' = [status |-> trr.status]
                /\ pc' = "raised"
    /\ UNCHANGED <<calls, inputs, horizon, gridVars>>

\* build_wacc_path and the discount factors run_dcf derives from it, or the
\* IndexError of a horizon below 4
BuildWaccPath ==
    /\ pc = "build"
    /\ LET wacr == build_wacc_path(inputs, horizon)
       IN  IF wacr.status = "ok"
           THEN /\ result' = [status |-> "wacc", wacc |-> wacr.path,
                              cum_discount_factor |-> cum_df_path(wacr.path, horizon)]
                /\ pc' = "wacc"
           ELSE /\ result' = [status |-> wacr.status]
                /\ pc' = "raised"
    /\ UNCHANGED <<calls, inputs, horizon, gridVars>>

NextPaths == BuildGrowthPath \/ BuildMarginPath \/ BuildTaxPath \/ BuildWaccPath

SpecPaths == InitPaths /\ [][NextPaths]_vars

-----------------------------------------------------------------------------
(* main: the base valuation followed by the growth x margin sensitivity grid *)

\* horizon_years: int = 10, the default every call of main relies on
DefaultHorizon == 10

\* Assumptions and axes handed to the analysis.  The first family lies inside
\* the ranges of the sidebar widgets; the second leaves them (run_dcf and the
\* grid loop place no restriction on the record they are given), which keeps
\* ten years of exact compounding and discounting small.  prob_failure and
\* recovery_rate are fixed by main.
WidgetRangeInputs ==
    {DCFInputs(Num(5), m0, Zero, Zero,
               Zero, Zero, Rat(1, 10), n,
               stc, stc, Rat(1, 5), Rat(1, 5),
               Zero, Rat(1, 5), Num(4), Num(3),
               Zero, One, sh,
               Num(10), Zero, Rat(1, 2)) :
        m0 \in {Rat(1, 10), Rat(1, 5)}, n \in {3, 5},
        stc \in {One, Num(2)}, sh \in {One, Num(2)}}

WideInputs ==
    {DCFInputs(Num(10), Rat(1, 10), Zero, tm,
               g1, Zero, Rat(1, 10), n,
               One, Num(2), One, One,
               Zero, Rat(1, 5), Num(4), Num(3),
               Zero, One, Num(2),
               Num(10), Zero, Rat(1, 2)) :
        tm \in {Zero, Rat(1, 2)}, g1 \in {Zero, One}, n \in {3, 5}}

WidgetRangeGrids ==
    {[g_min |-> Zero, g_max |-> Zero, n_g |-> 3,
      m_min |-> m[1], m_max |-> m[2], n_m |-> 3] :
        m \in {<<Zero, Rat(1, 5)>>, <<Rat(1, 10), Rat(3, 10)>>}}

WideGrids ==
    {[g_min |-> g[1], g_max |-> g[2], n_g |-> 3,
      m_min |-> m[1], m_max |-> m[2], n_m |-> m[3]] :
        g \in {<<Zero, Num(2)>>, <<One, One>>},
        m \in {<<Zero, Rat(1, 5), 3>>, <<Rat(3, 10), Zero, 4>>}}

\* terminal_wacc = terminal_growth: the terminal value divides by zero
ZeroSpreadInputs ==
    {[inp EXCEPT !.terminal_wacc = Zero] :
        inp \in {w \in WideInputs : w.g_year1 = Zero /\ w.margin_convergence_year = 3}}

\* terminal_roic = 0: terminal_growth / terminal_roic divides two Python floats
ZeroRoicInputs ==
    {[inp EXCEPT !.terminal_roic = Zero] :
        inp \in {w \in WideInputs : w.g_year1 = Zero /\ w.margin_convergence_year = 3}}

MainCases ==
    (WidgetRangeInputs \X WidgetRangeGrids)
        \cup ((WideInputs \cup ZeroSpreadInputs \cup ZeroRoicInputs) \X WideGrids)

\* np.linspace(start, stop, num), num >= 2, as a 0-indexed array
linspace(start, stop, num) ==
    LET step == Div(Sub(stop, start), Num(num - 1))
    IN  [k \in 0..(num - 1) |-> Add(Mul(Num(k), step), start)]

\* the clone of the loop body with the target margin left at the base value
tmp_inputs_base_margin(inp, g_sens, m_sens) ==
    DCFInputs(inp.base_revenue, inp.base_ebit_margin, inp.effective_tax_rate,
              inp.marginal_tax_rate, inp.g_year1, g_sens, inp.target_ebit_margin,
              inp.margin_convergence_year, inp.sales_to_capital_yrs1_5,
              inp.sales_to_capital_yrs6_10, inp.initial_wacc, inp.terminal_wacc,
              inp.terminal_growth, inp.terminal_roic, inp.debt, inp.cash,
              inp.non_operating_assets, inp.options_value, inp.shares_outstanding,
              inp.base_invested_capital, inp.prob_failure, inp.recovery_rate)

\* the clone built in the loop body, field by field
tmp_inputs(inp, g_sens, m_sens) ==
    DCFInputs(inp.base_revenue, inp.base_ebit_margin, inp.effective_tax_rate,
              inp.marginal_tax_rate, inp.g_year1, g_sens, m_sens,
              inp.margin_convergence_year, inp.sales_to_capital_yrs1_5,
              inp.sales_to_capital_yrs6_10, inp.initial_wacc, inp.terminal_wacc,
              inp.terminal_growth, inp.terminal_roic, inp.debt, inp.cash,
              inp.non_operating_assets, inp.options_value, inp.shares_outstanding,
              inp.base_invested_capital, inp.prob_failure, inp.recovery_rate)

InitMain ==
    /\ pc = "main"
    /\ \E c \in MainCases : inputs = c[1] /\ widgets = c[2]
    /\ horizon = DefaultHorizon
    /\ result = [status |-> "none"]
    /\ g_list = <<>>
    /\ m_list = <<>>
    /\ sens_matrix = <<>>
    /\ i = 0
    /\ j = 0
    /\ tasks = <<>>
    /\ calls = <<>>

\* df, diag, summary = run_dcf(inputs)
MainRunDcf ==
    /\ pc = "main"
    /\ result' = run_dcf(inputs, DefaultHorizon)
    /\ pc' = IF result'.status = "ok" THEN "shown" ELSE "raised"
    /\ UNCHANGED <<calls, inputs, horizon, gridVars>>

\* the two axes and the zero matrix
GridSetup ==
    /\ pc = "shown"
    /\ g_list' = linspace(widgets.g_min, widgets.g_max, widgets.n_g)
    /\ m_list' = linspace(widgets.m_min, widgets.m_max, widgets.n_m)
    /\ sens_matrix' = [a \in 0..(widgets.n_g - 1) |->
                          [b \in 0..(widgets.n_m - 1) |-> Zero]]
    /\ i' = 0
    /\ j' = 0
    /\ pc' = "grid"
    /\ UNCHANGED <<calls, inputs, horizon, result, widgets, tasks>>

\* the store of a whole row in place of the single entry [a][b]
store_cell_whole_row(mat, a, b, v) == [mat EXCEPT ![a] = [c \in DOMAIN mat[a] |-> v]]

\* sens_matrix[i, j] = s["value_per_share"]
store_cell(mat, a, b, v) == [mat EXCEPT ![a][b] = v]

\* the loop body overriding the two fields of inputs in place, no clone
GridCell_in_place ==
    /\ pc = "grid"
    /\ inputs' = [inputs EXCEPT !.g_years2_5 = g_list[i],
                                !.target_ebit_margin = m_list[j]]
    /\ LET s == run_dcf(inputs', DefaultHorizon)
           last_j == j + 1 = widgets.n_m
           last == last_j /\ i + 1 = widgets.n_g
       IN  IF s.status = "ok"
           THEN /\ sens_matrix' =
                      store_cell(sens_matrix, i, j, s.summary.value_per_share)
                /\ j' = IF last_j THEN 0 ELSE j + 1
                /\ i' = IF last_j THEN i + 1 ELSE i
                /\ pc' = IF last THEN "done" ELSE "grid"
           ELSE /\ pc' = "raised"
                /\ UNCHANGED <<sens_matrix, i, j>>
    /\ UNCHANGED <<calls, horizon, result, widgets, g_list, m_list, tasks>>

\* one pass of the inner loop body: clone, run_dcf, store the cell
GridCell ==
    /\ pc = "grid"
    /\ LET s == run_dcf(tmp_inputs(inputs, g_list[i], m_list[j]), DefaultHorizon)
           last_j == j + 1 = widgets.n_m
           last == last_j /\ i + 1 = widgets.n_g
       IN  IF s.status = "ok"
           THEN /\ sens_matrix' =
                      store_cell(sens_matrix, i, j, s.summary.value_per_share)
                /\ j' = IF last_j THEN 0 ELSE j + 1
                /\ i' = IF last_j THEN i + 1 ELSE i
                /\ pc' = IF last THEN "done" ELSE "grid"
           ELSE /\ pc' = "raised"
                /\ UNCHANGED <<sens_matrix, i, j>>
    /\ UNCHANGED <<calls, inputs, horizon, result, widgets, g_list, m_list, tasks>>

NextMain == MainRunDcf \/ GridSetup \/ GridCell

SpecMain == InitMain /\ [][NextMain]_vars

-----------------------------------------------------------------------------
(* The loop bodies of the grid run by workers in any order.  A worker takes  *)
(* any cell nobody has taken, builds the clone and calls run_dcf (lines      *)
(* 537-561), and later stores the value into its entry (line 562); each      *)
(* worker holds one cell at a time.                                          *)

Workers == {"w1", "w2"}

ParallelInputs ==
    {w \in WideInputs : w.g_year1 = Zero /\ w.margin_convergence_year = 3 /\ w.marginal_tax_rate = Zero}

\* The grid-count sliders give 3..11 points per axis; np.linspace and the
\* loops accept any count, and a 3 x 2 grid keeps every interleaving of two
\* workers enumerable.
ParallelGrids ==
    {[g_min |-> Zero, g_max |-> Num(2), n_g |-> 3,
      m_min |-> Zero, m_max |-> Rat(1, 5), n_m |-> 2]}

InitParallel ==
    /\ pc = "shown"
    /\ inputs \in ParallelInputs
    /\ widgets \in ParallelGrids
    /\ horizon = DefaultHorizon
    /\ result = run_dcf(inputs, DefaultHorizon)
    /\ g_list = <<>>
    /\ m_list = <<>>
    /\ sens_matrix = <<>>
    /\ i = 0
    /\ j = 0
    /\ tasks = <<>>
    /\ calls = <<>>

\* the two axes, the zero matrix, and one task per cell
ParallelSetup ==
    /\ pc = "shown"
    /\ g_list' = linspace(widgets.g_min, widgets.g_max, widgets.n_g)
    /\ m_list' = linspace(widgets.m_min, widgets.m_max, widgets.n_m)
    /\ sens_matrix' = [a \in 0..(widgets.n_g - 1) |->
                          [b \in 0..(widgets.n_m - 1) |-> Zero]]
    /\ tasks' = [c \in (0..(widgets.n_g - 1)) \X (0..(widgets.n_m - 1)) |->
                    [state |-> "pending"]]
    /\ pc' = "grid"
    /\ UNCHANGED <<calls, inputs, horizon, result, widgets, i, j>>

Busy(w) == \E c \in DOMAIN tasks : tasks[c].state = "computed" /\ tasks[c].worker = w

\* tmp_inputs = DCFInputs(...); _, _, s = run_dcf(tmp_inputs)
WorkerRun(w, c) ==
    /\ pc = "grid"
    /\ ~Busy(w)
    /\ tasks[c].state = "pending"
    /\ LET s == run_dcf(tmp_inputs(inputs, g_list[c[1]], m_list[c[2]]), DefaultHorizon)
       IN  IF s.status = "ok"
           THEN /\ tasks' = [tasks EXCEPT ![c] =
                                [state |-> "computed", worker |-> w,
                                 value |-> s.summary.value_per_share]]
                /\ pc' = pc
           ELSE /\ pc' = "raised"
                /\ UNCHANGED tasks
    /\ UNCHANGED <<calls, inputs, horizon, result, widgets, g_list, m_list, sens_matrix, i, j>>

\* sens_matrix[i, j] = s["value_per_share"], by the worker that computed it
WorkerStore(w, c) ==
    /\ pc = "grid"
    /\ tasks[c].state = "computed"
    /\ tasks[c].worker = w
    /\ sens_matrix' = store_cell(sens_matrix, c[1], c[2], tasks[c].value)
    /\ tasks' = [tasks EXCEPT ![c] = [state |-> "written"]]
    /\ pc' = IF \A d \in DOMAIN tasks : tasks'[d].state = "written"
             THEN "done" ELSE "grid"
    /\ UNCHANGED <<calls, inputs, horizon, result, widgets, g_list, m_list, i, j>>

NextParallel ==
    \/ ParallelSetup
    \/ \E w \in Workers : \E c \in DOMAIN tasks : WorkerRun(w, c)
    \/ \E w \in Workers : \E c \in DOMAIN tasks : WorkerStore(w, c)

SpecParallel == InitParallel /\ [][NextParallel]_vars

\* the sequential row-major nested loop of main after its first k passes
RECURSIVE nested_loop(_, _, _, _, _)
nested_loop(inp, gl, ml, n_m, k) ==
    IF k = 0
    THEN [a \in DOMAIN gl |-> [b \in DOMAIN ml |-> Zero]]
    ELSE LET a == (k - 1) \div n_m
             b == (k - 1) % n_m
             s == run_dcf(tmp_inputs(inp, gl[a], ml[b]), DefaultHorizon)
         IN  store_cell(nested_loop(inp, gl, ml, n_m, k - 1), a, b,
                        s.summary.value_per_share)

-----------------------------------------------------------------------------
(* Properties of the direct call (Spec) *)

Years == 1..horizon

Summary == result.summary

Table == result.df

\* C1: run_dcf never returns a valuation summary for assumptions with
\* terminal_wacc <= terminal_growth (equality included): whenever the call
\* has returned, terminal_wacc > terminal_growth.
C1_RejectsNonPositiveSpread ==
    Returned => Gt(inputs.terminal_wacc, inputs.terminal_growth)

\* C2: run_dcf never returns a value_per_share for shares_outstanding <= 0:
\* whenever the call has returned, shares_outstanding > 0.
C2_RejectsNonPositiveShares ==
    Returned => Gt(inputs.shares_outstanding, Zero)

InUnitInterval(x) == Le(Zero, x) /\ Le(x, One)

\* C3: run_dcf never returns for a recovery_rate or failure probability
\* outside [0,1] or a sales-to-capital ratio <= 0; in particular a negative
\* failure probability never yields the undistressed value.
C3_RejectsOutOfRangeAssumptions ==
    Returned =>
        /\ InUnitInterval(inputs.recovery_rate)
        /\ InUnitInterval(inputs.prob_failure)
        /\ Gt(inputs.sales_to_capital_yrs1_5, Zero)
        /\ Gt(inputs.sales_to_capital_yrs6_10, Zero)

ValidSpread == Gt(inputs.terminal_wacc, inputs.terminal_growth)

\* C5: for every input with terminal_wacc > terminal_growth the returned
\* terminal value times the spread is the terminal-year FCFF
\* (ebit_1_t[H+1] - reinvestment[H+1]), and its present value is the terminal
\* value times the cumulative factor of year H.
C5_TerminalValueIdentity ==
    (Returned /\ ValidSpread) =>
        /\ Mul(Summary.terminal_value,
               Sub(inputs.terminal_wacc, inputs.terminal_growth))
             = Sub(Table.ebit_1_t[horizon + 1], Table.reinvestment[horizon + 1])
        /\ Summary.pv_terminal_value
             = Mul(Summary.terminal_value, Table.cum_discount_factor[horizon])

C5_Witness ==
    /\ Returned
    /\ ValidSpread
    /\ ~IsZero(inputs.terminal_growth)
    /\ IsFinite(Summary.terminal_value)
    /\ ~IsZero(Summary.terminal_value)
    /\ horizon >= 6

CashDeltas == {Num(7), Num(-25), Rat(1, 3)}

\* C6: a second run whose assumptions differ only in cash, by D, returns a
\* value_per_share that is the first one plus D / shares_outstanding, for
\* every failure probability and recovery rate (shares_outstanding # 0, so
\* that the quotient is defined).
C6_CashLinearity ==
    (Returned /\ ~IsZero(inputs.shares_outstanding)) =>
        \A D \in CashDeltas :
            LET second == run_dcf([inputs EXCEPT !.cash = Add(@, D)], horizon)
            IN  /\ second.status = "ok"
                /\ second.summary.value_per_share
                     = Add(Summary.value_per_share,
                           Div(D, inputs.shares_outstanding))

C6_Witness ==
    /\ Returned
    /\ Gt(inputs.prob_failure, Zero)
    /\ Lt(inputs.prob_failure, One)
    /\ IsFinite(Summary.value_per_share)
    /\ ~IsZero(inputs.shares_outstanding)

RecoveryRates == {Zero, Rat(1, 4), One, Num(3), Num(-1)}

\* C7: with prob_failure = 0 the returned value_operating_assets is sum_pv,
\* and a run that differs only in recovery_rate returns the same tables and
\* summary.
C7_ZeroFailureIgnoresRecovery ==
    (Returned /\ IsZero(inputs.prob_failure)) =>
        /\ Summary.value_operating_assets = Summary.sum_pv
        /\ \A r \in RecoveryRates :
              run_dcf([inputs EXCEPT !.recovery_rate = r], horizon) = result

C7_Witness ==
    /\ Returned
    /\ IsZero(inputs.prob_failure)
    /\ IsFinite(Summary.sum_pv)
    /\ ~IsZero(Summary.sum_pv)
    /\ ~IsZero(inputs.recovery_rate)

PositiveWacc == \A t \in Years : Gt(Table.wacc[t], Zero)

\* C10: cum_df[0] = 1, cum_df[t] = cum_df[t-1] / (1 + wacc[t]) and
\* pv_fcff[t] = fcff[t] * cum_df[t] for t = 1..H; when every wacc[t],
\* t = 1..H, is positive, cum_df is strictly decreasing over 0..H and stays
\* in (0, 1].
C10_DiscountFactors ==
    Returned =>
        /\ Table.cum_discount_factor[0] = One
        /\ \A t \in Years :
              /\ Table.cum_discount_factor[t]
                   = Div(Table.cum_discount_factor[t - 1], Add(One, Table.wacc[t]))
              /\ Table.pv_fcff[t] = Mul(Table.fcff[t], Table.cum_discount_factor[t])
        /\ PositiveWacc =>
              \A t \in Years :
                  /\ Lt(Table.cum_discount_factor[t], Table.cum_discount_factor[t - 1])
                  /\ Gt(Table.cum_discount_factor[t], Zero)
                  /\ Le(Table.cum_discount_factor[t], One)

C10_Witness ==
    /\ Returned
    /\ PositiveWacc
    /\ horizon >= 6
    /\ inputs.initial_wacc # inputs.terminal_wacc
    /\ \E t \in Years : IsFinite(Table.pv_fcff[t]) /\ ~IsZero(Table.pv_fcff[t])

PathNames == {"year", "growth", "revenue", "ebit_margin", "ebit", "tax_rate", "ebit_1_t", "sales_to_capital", "reinvestment", "fcff", "wacc", "cum_discount_factor", "pv_fcff"}

DiagNames == {"year", "invested_capital", "roic"}

\* C11: for every horizon H >= 1 (H < 6, H < 5 and H < 4 included) the call
\* completes and returns paths that are all indexed 0..H+1 and a diagnostics
\* table indexed 0..H; no builder writes outside 0..H+1 (no IndexError).
\* Stated for terminal_roic # 0, whose division is the subject of C12.
C11_CompletesForEveryHorizon ==
    (pc # "call" /\ ~IsZero(inputs.terminal_roic)) =>
        /\ Returned
        /\ \A n \in PathNames : DOMAIN Table[n] = 0..(horizon + 1)
        /\ \A n \in DiagNames : DOMAIN result.diag[n] = 0..horizon

SummaryNames == {"pv_cf_1_10", "terminal_value", "pv_terminal_value", "sum_pv", "value_operating_assets", "value_equity", "value_equity_common", "value_per_share"}

\* C12: run_dcf never returns a summary, path or diagnostic holding an
\* undefined (nan) or infinite value: whenever the call has returned, every
\* value of the summary, of the paths and of the diagnostics is finite.
C12_NeverReturnsUndefined ==
    Returned =>
        /\ \A n \in SummaryNames : IsFinite(Summary[n])
        /\ \A n \in PathNames \ {"year"} :
              \A t \in 0..(horizon + 1) : IsFinite(Table[n][t])
        /\ \A n \in DiagNames \ {"year"} :
              \A t \in 0..horizon : IsFinite(result.diag[n][t])

\* C23: for every t in 1..H, reinv[t] * stc[t] = revenue[t+1] - revenue[t],
\* where stc[t] is the years-1-5 ratio for t <= 5 and the years-6-10 ratio
\* for t >= 6; the terminal slot is
\* reinv[H+1] = (terminal_growth / terminal_roic) * ebit_1_t[H+1].
C23_ReinvestmentFundsNextYear ==
    Returned =>
        /\ \A t \in Years :
              /\ Table.sales_to_capital[t]
                   = IF t <= 5 THEN inputs.sales_to_capital_yrs1_5
                     ELSE inputs.sales_to_capital_yrs6_10
              /\ Mul(Table.reinvestment[t], Table.sales_to_capital[t])
                   = Sub(Table.revenue[t + 1], Table.revenue[t])
        /\ Table.reinvestment[horizon + 1]
             = Mul(Div(inputs.terminal_growth, inputs.terminal_roic),
                   Table.ebit_1_t[horizon + 1])

\* C24: for every t in 1..H, ebit[t] = revenue[t] * margin[t],
\* ebit_1_t[t] = ebit[t] * (1 - tax[t]) and fcff[t] = ebit_1_t[t] - reinv[t];
\* the returned FCFF path holds 0 in slots 0 and H+1 (the terminal cash flow
\* is not stored), and pv_cf_1_10 is the sum over the H explicit years of
\* fcff[t] * cum_discount_factor[t].
C24_FcffOfExplicitYears ==
    Returned =>
        /\ \A t \in Years :
              /\ Table.ebit[t] = Mul(Table.revenue[t], Table.ebit_margin[t])
              /\ Table.ebit_1_t[t]
                   = Mul(Table.ebit[t], Sub(One, Table.tax_rate[t]))
              /\ Table.fcff[t] = Sub(Table.ebit_1_t[t], Table.reinvestment[t])
        /\ Table.fcff[0] = Zero
        /\ Table.fcff[horizon + 1] = Zero
        /\ Summary.pv_cf_1_10
             = SumRange([t \in Years |->
                            Mul(Table.fcff[t], Table.cum_discount_factor[t])],
                        1, horizon)

C24_Witness ==
    /\ Returned
    /\ horizon = MaxHorizon
    /\ IsFinite(Summary.pv_cf_1_10)
    /\ ~IsZero(Table.fcff[horizon])
    /\ Table.ebit_1_t[horizon + 1] # Table.reinvestment[horizon + 1]
    /\ Summary.pv_cf_1_10 # Summary.sum_pv

Diag == result.diag

\* C25, as the specification states it: roic[t] = ebit_1_t[t] / invested[t]
\* for t = 0..H with invested[0] = base invested capital, and
\* ebit_1_t[0] = 0, so roic[0] = 0 whenever base invested capital is not 0.
C25_BaseYearRoicIsZero ==
    (Returned /\ ~IsZero(inputs.base_invested_capital)) =>
        /\ \A t \in 0..horizon :
              Diag.roic[t] = Div(Table.ebit_1_t[t], Diag.invested_capital[t])
        /\ Diag.invested_capital[0] = inputs.base_invested_capital
        /\ Table.ebit_1_t[0] = Zero
        /\ Diag.roic[0] = Zero

base_ebit_1_t ==
    Mul(Mul(inputs.base_revenue, inputs.base_ebit_margin),
        Sub(One, inputs.effective_tax_rate))

\* C25: roic[t] = ebit_1_t[t] / invested[t] for t = 0..H with invested[0] =
\* base invested capital, and the base-year entry uses ebit_1_t[0] =
\* base_revenue * base_margin * (1 - effective_tax_rate), so roic[0] is that
\* amount over base invested capital whenever base invested capital is not 0.
C25_BaseYearRoic ==
    (Returned /\ ~IsZero(inputs.base_invested_capital)) =>
        /\ \A t \in 0..horizon :
              Diag.roic[t] = Div(Table.ebit_1_t[t], Diag.invested_capital[t])
        /\ Diag.invested_capital[0] = inputs.base_invested_capital
        /\ Table.ebit_1_t[0] = base_ebit_1_t
        /\ Diag.roic[0] = Div(base_ebit_1_t, inputs.base_invested_capital)

C25_Witness ==
    /\ Returned
    /\ ~IsZero(inputs.base_invested_capital)
    /\ IsFinite(Diag.roic[0])
    /\ ~IsZero(Diag.roic[0])
    /\ Diag.roic[horizon] # Diag.roic[0]

\* C26: the returned summary satisfies sum_pv = pv_cf_1_10 +
\* pv_terminal_value; value_operating_assets = sum_pv * (1 - p) +
\* sum_pv * recovery_rate * p when p = prob_failure > 0 and = sum_pv when
\* p = 0; value_equity = value_operating_assets - debt + cash +
\* non_operating_assets; value_equity_common = value_equity - options_value;
\* value_per_share * shares_outstanding = value_equity_common.
C26_BridgeIdentities ==
    Returned =>
        /\ Summary.sum_pv = Add(Summary.pv_cf_1_10, Summary.pv_terminal_value)
        /\ Gt(inputs.prob_failure, Zero) =>
              Summary.value_operating_assets
                = Add(Mul(Summary.sum_pv, Sub(One, inputs.prob_failure)),
                      Mul(Mul(Summary.sum_pv, inputs.recovery_rate),
                          inputs.prob_failure))
        /\ IsZero(inputs.prob_failure) =>
              Summary.value_operating_assets = Summary.sum_pv
        /\ Summary.value_equity
             = Add(Add(Sub(Summary.value_operating_assets, inputs.debt),
                       inputs.cash),
                   inputs.non_operating_assets)
        /\ Summary.value_equity_common
             = Sub(Summary.value_equity, inputs.options_value)
        /\ Mul(Summary.value_per_share, inputs.shares_outstanding)
             = Summary.value_equity_common

EqualRatios ==
    /\ inputs.sales_to_capital_yrs1_5 = inputs.sales_to_capital_yrs6_10
    /\ Gt(inputs.sales_to_capital_yrs1_5, Zero)

\* C28: invested[t] = base_invested_capital + reinv[1] + ... + reinv[t] for
\* every t in 0..H, and when both sales-to-capital ratios are the same s > 0,
\* invested[H] - invested[0] = (revenue[H+1] - revenue[1]) / s.
C28_InvestedCapitalTelescopes ==
    Returned =>
        /\ \A t \in 0..horizon :
              Diag.invested_capital[t]
                = Add(inputs.base_invested_capital,
                      SumRange(Table.reinvestment, 1, t))
        /\ EqualRatios =>
              Sub(Diag.invested_capital[horizon], Diag.invested_capital[0])
                = Div(Sub(Table.revenue[horizon + 1], Table.revenue[1]),
                      inputs.sales_to_capital_yrs1_5)

C28_Witness ==
    /\ Returned
    /\ EqualRatios
    /\ horizon = MaxHorizon
    /\ inputs.sales_to_capital_yrs1_5 # One
    /\ Table.reinvestment[1] # Table.reinvestment[2]
    /\ Diag.invested_capital[horizon] # Diag.invested_capital[horizon - 1]

TerminalPreconditions ==
    /\ Gt(Table.ebit_1_t[horizon + 1], Zero)
    /\ Gt(inputs.terminal_roic, Zero)
    /\ Gt(inputs.terminal_wacc, inputs.terminal_growth)

\* C29: the terminal cash flow ebit_1_t[H+1] - reinv[H+1] is
\* ebit_1_t[H+1] * (1 - terminal_growth / terminal_roic); for a returned
\* projection with ebit_1_t[H+1] > 0, terminal_roic > 0 and terminal_wacc >
\* terminal_growth the terminal value is negative exactly when
\* terminal_growth > terminal_roic and zero exactly when they are equal.
C29_TerminalValueSign ==
    Returned =>
        /\ Sub(Table.ebit_1_t[horizon + 1], Table.reinvestment[horizon + 1])
             = Mul(Table.ebit_1_t[horizon + 1],
                   Sub(One, Div(inputs.terminal_growth, inputs.terminal_roic)))
        /\ TerminalPreconditions =>
              /\ Lt(Summary.terminal_value, Zero)
                   <=> Gt(inputs.terminal_growth, inputs.terminal_roic)
              /\ IsZero(Summary.terminal_value)
                   <=> inputs.terminal_growth = inputs.terminal_roic

C29_Witness ==
    /\ Returned
    /\ TerminalPreconditions
    /\ Gt(inputs.terminal_growth, inputs.terminal_roic)
    /\ Lt(Summary.terminal_value, Zero)
    /\ IsFinite(Summary.value_per_share)

MarginRaises == {Rat(1, 10), One}

MonotoneCase(inp, df, H) ==
    /\ Gt(inp.base_revenue, Zero)
    /\ \A t \in 1..(H + 1) :
          /\ Gt(df.growth[t], Num(-1))
          /\ Lt(df.tax_rate[t], One)
          /\ Gt(df.wacc[t], Zero)
    /\ Gt(inp.sales_to_capital_yrs1_5, Zero)
    /\ Gt(inp.sales_to_capital_yrs6_10, Zero)
    /\ Gt(inp.terminal_wacc, inp.terminal_growth)
    /\ Le(Zero, inp.terminal_growth)
    /\ Lt(inp.terminal_growth, inp.terminal_roic)
    /\ InUnitInterval(inp.prob_failure)
    /\ InUnitInterval(inp.recovery_rate)
    /\ Gt(inp.shares_outstanding, Zero)

MonotonePreconditions == MonotoneCase(inputs, Table, horizon)

\* C30: for positive base revenue, growth rates > -1, tax rates < 1,
\* positive sales-to-capital ratios, a positive WACC path, terminal_wacc >
\* terminal_growth, 0 <= terminal_growth < terminal_roic, failure probability
\* and recovery rate in [0,1] and shares_outstanding > 0, a second run that
\* differs only by a higher target_ebit_margin returns a value_per_share
\* that is not lower, and strictly higher when prob_failure = 0.
C30_MonotoneInTargetMargin ==
    (Returned /\ MonotonePreconditions) =>
        \A d \in MarginRaises :
            LET second == run_dcf([inputs EXCEPT !.target_ebit_margin = Add(@, d)],
                                  horizon)
            IN  /\ second.status = "ok"
                /\ Le(Summary.value_per_share, second.summary.value_per_share)
                /\ IsZero(inputs.prob_failure) =>
                      Lt(Summary.value_per_share, second.summary.value_per_share)

C30_Witness ==
    /\ Returned
    /\ MonotonePreconditions
    /\ horizon = MaxHorizon
    /\ Gt(inputs.prob_failure, Zero)
    /\ Lt(inputs.prob_failure, One)
    /\ IsFinite(Summary.value_per_share)
    /\ ~IsZero(inputs.terminal_growth)

-----------------------------------------------------------------------------
(* Properties of repeated calls (SpecCalls) *)

SameArguments(a, b) ==
    calls[a].inputs = calls[b].inputs /\ calls[a].horizon = calls[b].horizon

-----------------------------------------------------------------------------
(* Properties of the path builders (SpecPaths) *)

RECURSIVE Pow(_, _)
Pow(x, n) == IF n = 0 THEN One ELSE Mul(Pow(x, n - 1), x)

FlatGrowth ==
    /\ inputs.g_year1 = inputs.g_years2_5
    /\ inputs.g_years2_5 = inputs.terminal_growth

\* C8: when g_year1 = g_years2_5 = terminal_growth = g, the growth path is g
\* at every index 1..H+1, for every horizon H >= 1 (H > 10 included), and
\* revenue[t] = base_revenue * (1 + g)^t for every t in 0..H+1.
C8_FlatPath ==
    (pc = "growth" /\ FlatGrowth) =>
        /\ \A t \in 1..(horizon + 1) : result.growth[t] = inputs.g_year1
        /\ \A t \in 0..(horizon + 1) :
              result.revenue[t]
                = Mul(inputs.base_revenue, Pow(Add(One, inputs.g_year1), t))

C8_Witness ==
    /\ pc = "growth"
    /\ FlatGrowth
    /\ ~IsZero(inputs.g_year1)
    /\ horizon > 10

ConvergenceYear == inputs.margin_convergence_year

\* C9 as stated: for every convergence year N >= 1 and horizon H >= N the
\* margin path has m[N] = target and m[t] = target for N < t <= H+1.
C9_ConvergesAtAnyYear ==
    (pc = "margin" /\ ConvergenceYear >= 1 /\ horizon >= ConvergenceYear) =>
        \A t \in ConvergenceYear..(horizon + 1) :
            result.ebit_margin[t] = inputs.target_ebit_margin

\* C9 amended: for every convergence year N >= 2 and horizon H >= N,
\* m[N] = target and m[t] = target for N < t <= H+1; for N = 1 year 1 keeps
\* the base margin and m[t] = target only for 2 <= t <= H+1.
C9_ConvergesFromYearTwo ==
    (pc = "margin" /\ ConvergenceYear >= 1 /\ horizon >= ConvergenceYear) =>
        /\ ConvergenceYear >= 2 =>
              \A t \in ConvergenceYear..(horizon + 1) :
                  result.ebit_margin[t] = inputs.target_ebit_margin
        /\ ConvergenceYear = 1 =>
              /\ result.ebit_margin[1] = inputs.base_ebit_margin
              /\ \A t \in 2..(horizon + 1) :
                    result.ebit_margin[t] = inputs.target_ebit_margin

C9_Witness ==
    /\ pc = "margin"
    /\ ConvergenceYear >= 3
    /\ horizon > ConvergenceYear
    /\ inputs.base_ebit_margin # inputs.target_ebit_margin
    /\ result.ebit_margin[ConvergenceYear - 1] # inputs.target_ebit_margin

GrowthStep == Div(Sub(inputs.g_years2_5, inputs.terminal_growth), Num(5))

\* C18: for every horizon 1 <= H <= 10 the growth path is g[0] = 0,
\* g[1] = g1, g[t] = g25 for 2 <= t <= min(5, H),
\* g[t] = g25 - ((g25 - gT)/5) * (t - 5) for 6 <= t <= H and g[H+1] = gT;
\* for H = 10 the year-10 growth is gT.
C18_GrowthPathShape ==
    (pc = "growth" /\ horizon <= 10) =>
        /\ result.growth[0] = Zero
        /\ result.growth[1] = inputs.g_year1
        /\ \A t \in 2..Min(5, horizon) : result.growth[t] = inputs.g_years2_5
        /\ \A t \in 6..horizon :
              result.growth[t]
                = Sub(inputs.g_years2_5, Mul(GrowthStep, Num(t - 5)))
        /\ result.growth[horizon + 1] = inputs.terminal_growth
        /\ horizon = 10 => result.growth[10] = inputs.terminal_growth

C18_Witness ==
    /\ pc = "growth"
    /\ horizon = 10
    /\ inputs.g_year1 # inputs.g_years2_5
    /\ inputs.g_years2_5 # inputs.terminal_growth
    /\ result.growth[9] # inputs.terminal_growth
    /\ result.growth[10] = inputs.terminal_growth

\* C19: for every horizon H > 10 the growth path holds flat after year 10:
\* g[t] = g[10] = gT for every t with 10 < t <= H.
C19_FlatAfterYearTen ==
    (pc = "growth" /\ horizon > 10) =>
        \A t \in 11..horizon :
            /\ result.growth[t] = result.growth[10]
            /\ result.growth[t] = inputs.terminal_growth

\* C20: for every N >= 1 and horizon H >= 1 the margin path is m[0] = m0,
\* m[1] = m0, m[t] = m0 + (mT - m0) * (t/N) for 2 <= t <= min(N, H) (a
\* straight line in t/N), m[t] = mT for N < t <= H, and m[H+1] = mT even
\* when N > H.
C20_MarginPathShape ==
    (pc = "margin" /\ ConvergenceYear >= 1) =>
        /\ result.ebit_margin[0] = inputs.base_ebit_margin
        /\ result.ebit_margin[1] = inputs.base_ebit_margin
        /\ \A t \in 2..Min(ConvergenceYear, horizon) :
              result.ebit_margin[t]
                = Add(inputs.base_ebit_margin,
                      Mul(Sub(inputs.target_ebit_margin, inputs.base_ebit_margin),
                          Rat(t, ConvergenceYear)))
        /\ \A t \in (ConvergenceYear + 1)..horizon :
              result.ebit_margin[t] = inputs.target_ebit_margin
        /\ result.ebit_margin[horizon + 1] = inputs.target_ebit_margin

C20_Witness ==
    /\ pc = "margin"
    /\ ConvergenceYear > horizon
    /\ horizon >= 3
    /\ inputs.base_ebit_margin # inputs.target_ebit_margin
    /\ result.ebit_margin[horizon] # inputs.target_ebit_margin
    /\ result.ebit_margin[horizon] # result.ebit_margin[horizon - 1]
    /\ result.ebit_margin[horizon + 1] = inputs.target_ebit_margin

TaxFraction(t) == Rat(t - 5, 5)

\* C21: for every horizon H >= 5 the tax path is tr[t] = te for 0 <= t <= 5,
\* tr[t] = te + (tm - te) * (t - 5)/5 for 6 <= t <= H and tr[H+1] = tm; for
\* H = 5 the terminal slot tr[6] is tm while tr[5] is te.
C21_TaxPathShape ==
    (pc = "tax" /\ horizon >= 5) =>
        /\ \A t \in 0..5 : result.tax_rate[t] = inputs.effective_tax_rate
        /\ \A t \in 6..horizon :
              result.tax_rate[t]
                = Add(inputs.effective_tax_rate,
                      Mul(Sub(inputs.marginal_tax_rate, inputs.effective_tax_rate),
                          TaxFraction(t)))
        /\ result.tax_rate[horizon + 1] = inputs.marginal_tax_rate

C21_Witness ==
    /\ pc = "tax"
    /\ horizon = 5
    /\ inputs.effective_tax_rate # inputs.marginal_tax_rate
    /\ result.tax_rate[5] = inputs.effective_tax_rate
    /\ result.tax_rate[6] = inputs.marginal_tax_rate

WaccStep == Div(Sub(inputs.initial_wacc, inputs.terminal_wacc), Num(5))

\* C22: for every horizon H >= 5 the WACC path is w[t] = w0 for 1 <= t <= 5,
\* w[t] = w0 - ((w0 - wT)/5) * (t - 5) for 6 <= t <= H and w[H+1] = wT;
\* w[0] is left at 0 and the discount recurrence never reads it: the
\* factors are the same whatever w[0] holds.
C22_WaccPathShape ==
    (pc = "wacc" /\ horizon >= 5) =>
        /\ \A t \in 1..5 : result.wacc[t] = inputs.initial_wacc
        /\ \A t \in 6..horizon :
              result.wacc[t] = Sub(inputs.initial_wacc, Mul(WaccStep, Num(t - 5)))
        /\ result.wacc[horizon + 1] = inputs.terminal_wacc
        /\ result.wacc[0] = Zero
        /\ \A x \in {One, Num(-1), NaN} :
              cum_df_path([result.wacc EXCEPT ![0] = x], horizon)
                = result.cum_discount_factor

C22_Witness ==
    /\ pc = "wacc"
    /\ horizon >= 7
    /\ horizon <= 10
    /\ inputs.initial_wacc # inputs.terminal_wacc
    /\ ~IsZero(inputs.initial_wacc)
    /\ result.wacc[horizon] # inputs.terminal_wacc
    /\ result.cum_discount_factor[horizon] # result.cum_discount_factor[horizon - 1]

Between(x, a, b) == (Le(a, x) /\ Le(x, b)) \/ (Le(b, x) /\ Le(x, a))

\* C27: for every horizon H >= 5, H > 10 included, and every t in 1..H+1,
\* tax_rate[t] lies between the effective and the marginal tax rate and
\* wacc[t] between the terminal and the initial WACC (bounds included).
C27_PathsNeverOvershoot ==
    /\ (pc = "tax" /\ horizon >= 5) =>
          \A t \in 1..(horizon + 1) :
              Between(result.tax_rate[t], inputs.effective_tax_rate,
                      inputs.marginal_tax_rate)
    /\ (pc = "wacc" /\ horizon >= 5) =>
          \A t \in 1..(horizon + 1) :
              Between(result.wacc[t], inputs.terminal_wacc, inputs.initial_wacc)

-----------------------------------------------------------------------------
(* Properties of main (SpecMain) *)

Rows == 0..(widgets.n_g - 1)

Cols == 0..(widgets.n_m - 1)

\* C4: once the grid evaluation has finished, every cell [a][b] is the
\* value_per_share run_dcf returns for the base assumptions with only
\* g_years2_5 replaced by g_list[a] and target_ebit_margin by m_list[b], at
\* the horizon of the base run.
C4_GridIsMemoOfRuns ==
    pc = "done" =>
        \A a \in Rows : \A b \in Cols :
            sens_matrix[a][b] =
                run_dcf([inputs EXCEPT !.g_years2_5 = g_list[a],
                                       !.target_ebit_margin = m_list[b]],
                        horizon).summary.value_per_share

C4_Witness ==
    /\ pc = "done"
    /\ g_list[2] # inputs.g_years2_5
    /\ m_list[2] # inputs.target_ebit_margin
    /\ sens_matrix[0][0] # sens_matrix[0][2]
    /\ sens_matrix[0][0] # sens_matrix[2][0]
    /\ sens_matrix[0][2] # Summary.value_per_share
    /\ \A a \in Rows : \A b \in Cols : IsFinite(sens_matrix[a][b])

ValidAssumptions(inp) ==
    /\ Gt(inp.terminal_wacc, inp.terminal_growth)
    /\ Gt(inp.shares_outstanding, Zero)
    /\ InUnitInterval(inp.recovery_rate)
    /\ InUnitInterval(inp.prob_failure)
    /\ Gt(inp.sales_to_capital_yrs1_5, Zero)
    /\ Gt(inp.sales_to_capital_yrs6_10, Zero)

\* C13: a grid cell whose assumptions are invalid or whose computation is
\* undefined is reported as an error: a grid evaluation that finished
\* without an error holds, in every cell, the finite value of valid
\* assumptions.
C13_UndefinedCellIsReported ==
    pc = "done" =>
        \A a \in Rows : \A b \in Cols :
            /\ ValidAssumptions(tmp_inputs(inputs, g_list[a], m_list[b]))
            /\ IsFinite(sens_matrix[a][b])

OverriddenFields == {"g_years2_5", "target_ebit_margin"}

\* C17: neither run_dcf nor the sensitivity loop modifies a field of the
\* assumptions record: no step of main changes inputs, and the clone of
\* every pass of the loop differs from inputs at most in g_years2_5 and
\* target_ebit_margin, which hold the axis values of the cell.
C17_InputsNeverModified ==
    [][/\ inputs' = inputs
       /\ pc = "grid" =>
             LET clone == tmp_inputs(inputs, g_list[i], m_list[j])
             IN  /\ DOMAIN clone = DOMAIN inputs
                 /\ \A f \in DOMAIN inputs \ OverriddenFields : clone[f] = inputs[f]
                 /\ clone.g_years2_5 = g_list[i]
                 /\ clone.target_ebit_margin = m_list[j]]_vars

C17_Witness ==
    /\ pc = "done"
    /\ result.status = "ok"
    /\ \A a \in Rows : \A b \in Cols :
          /\ g_list[a] # inputs.g_years2_5
          /\ tmp_inputs(inputs, g_list[a], m_list[b]) # inputs
    /\ \E b \in Cols : m_list[b] # inputs.target_ebit_margin

\* the consequence of C30 for main's grid (prob_failure is fixed at 0
\* there): along a row, a cell whose run meets the preconditions of C30 is
\* below every cell of a higher target margin and equals every cell of the
\* same target margin.
SensitivityRowsAscend ==
    pc = "done" =>
        \A a \in Rows : \A b \in Cols : \A c \in Cols :
            LET inp == tmp_inputs(inputs, g_list[a], m_list[b])
                run == run_dcf(inp, horizon)
            IN  (run.status = "ok" /\ MonotoneCase(inp, run.df, horizon)) =>
                    /\ Lt(m_list[b], m_list[c]) =>
                          Lt(sens_matrix[a][b], sens_matrix[a][c])
                    /\ m_list[b] = m_list[c] =>
                          sens_matrix[a][b] = sens_matrix[a][c]

SensitivityRowsAscend_Witness ==
    /\ pc = "done"
    /\ \E a \in Rows : \E b \in Cols :
          LET inp == tmp_inputs(inputs, g_list[a], m_list[b])
              run == run_dcf(inp, horizon)
          IN  /\ run.status = "ok"
              /\ MonotoneCase(inp, run.df, horizon)
              /\ b + 1 \in Cols
              /\ Lt(m_list[b], m_list[b + 1])

-----------------------------------------------------------------------------
(* Properties of the grid run by workers (SpecParallel) *)

\* C14: evaluated in any order and interleaved by workers, every cell is
\* written exactly once (a store turns one computed task into a written one
\* and touches no other entry; a written task is never touched again), and
\* the finished matrix is the one the sequential row-major loop produces.
C14_AnyOrderSameMatrix ==
    [][(pc = "grid" /\ pc' \in {"grid", "done"}) =>
          /\ \A c \in DOMAIN tasks :
                /\ tasks[c].state = "written" => tasks'[c] = tasks[c]
                /\ tasks'[c].state = "written" =>
                      tasks[c].state \in {"computed", "written"}
                /\ tasks'[c] = tasks[c] =>
                      sens_matrix'[c[1]][c[2]] = sens_matrix[c[1]][c[2]]
          /\ pc' = "done" =>
                sens_matrix' = nested_loop(inputs, g_list, m_list, widgets.n_m,
                                           widgets.n_g * widgets.n_m)]_vars

\* the last cell is stored while the first is still untaken and both
\* workers hold a computed value
C14_Witness ==
    /\ pc = "grid"
    /\ tasks[<<2, 1>>].state = "written"
    /\ tasks[<<0, 0>>].state = "pending"
    /\ \A w \in Workers : Busy(w)
    /\ sens_matrix[2][1] # Zero
    /\ IsFinite(sens_matrix[2][1])

====
